---- MODULE Spec2Model ----
(***************************************************************************)
(* Online-learning control loop of bot-trader-okx:                         *)
(*   OnlineLearningManager (src/backend/ml/online/integration.ts),         *)
(*   PredictionLogger, PerformanceTracker and ModelUpdater.                *)
(*                                                                         *)
(* JavaScript runs every handler to its next await without interruption,   *)
(* so one action is the code between two awaits.  The retrain cycle        *)
(* (updateModels) is the only handler that suspends with state pending:    *)
(* it awaits ModelUpdater.updateModel, which awaits MLPipeline.trainModel. *)
(* Records are heap objects shared by reference between the logger's Map   *)
(* and the array a running cycle holds, so `records` is a heap indexed by  *)
(* id and both `predictions` and a cycle's `recent` hold ids.              *)
(*                                                                         *)
(* Scaling: prices are integers, pnlPercentage is kept in hundredths of a  *)
(* percent (0.5% = 50), accuracy and performanceThreshold are compared in  *)
(* percent (0.55 = 55), confidence is in percent.                          *)
(***************************************************************************)
EXTENDS Integers, Sequences, FiniteSets, TLC

VARIABLES
  now,                  \* Date.now()
  nextId,               \* next value generatePredictionId() returns
  records,              \* heap of PredictionRecord objects, by id
  predictions,          \* PredictionLogger.predictions: ids in Map insertion order
  maxHistory,           \* PredictionLogger.maxHistory
  results,              \* PerformanceTracker.results
  resultsByModel,       \* PerformanceTracker.resultsByModel
  config,               \* OnlineLearningManager.config
  updaterConfig,        \* ModelUpdater.config
  updateHistory,        \* ModelUpdater.updateHistory
  isUpdating,           \* OnlineLearningManager.isUpdating
  lastUpdateTimestamp,  \* OnlineLearningManager.lastUpdateTimestamp
  cycles,               \* updateModels invocations suspended at an await
  thrown,               \* TRUE once a public operation has rejected
  lastOp                \* the operation that took the last step

vars == <<now, nextId, records, predictions, maxHistory, results,
          resultsByModel, config, updaterConfig, updateHistory, isUpdating,
          lastUpdateTimestamp, cycles, thrown, lastOp>>

----------------------------------------------------------------------------
(* Bounds of the model                                                     *)

MaxPredictions == 3
MaxTime == 2
MaxResults == 2
MaxUpdates == 1
MaxLogged == 1
MaxSuccesses == 1
MaxPartialFields == 2
MaxImported == 2
MaxGateHistory == 2
MaxWindowed == 2

(* Input domains                                                           *)

Directions == {"UP", "DOWN", "NEUTRAL"}
LoggedDirections == {"UP"}
CurrentPrices == {200}
ActualPrices == {198, 201, 202}
EvaluatedPrices == {198, 202}
Confidences == {80}
\* the sub-model predictions of a logged ensemble
ModelPredictions ==
  {<<[model |-> "LSTM", direction |-> "UP", confidence |-> 80]>>}
\* ensembles of no, one and two sub-models, which may disagree
EnsemblePredictions ==
  {<<>>,
   <<[model |-> "LSTM", direction |-> "UP", confidence |-> 80]>>,
   <<[model |-> "LSTM", direction |-> "UP", confidence |-> 80],
     [model |-> "XGBoost", direction |-> "DOWN", confidence |-> 80]>>}
\* prices whose percentage change is a whole number of hundredths of a percent
DirectionCurrentPrices == {200, 400}
DirectionActualPrices == 196..204
ImportedPrices == {198}
PredictionIds == 1..MaxPredictions
InitConfigs ==
  [updateFrequency : {"candle", "window", "manual"},
   windowSize : {2},
   minSamplesForUpdate : {1, 2},
   updateInterval : {1},
   enableAutoRetrain : BOOLEAN,
   performanceThreshold : {55},
   maxPredictionHistory : {2},
   modelTypes : {<<"LSTM", "XGBoost">>}]

\* the values updateConfig's partial draws its fields from
ConfigValues ==
  [updateFrequency : {"candle", "manual"},
   windowSize : {2},
   minSamplesForUpdate : {1, 2},
   updateInterval : {1},
   enableAutoRetrain : BOOLEAN,
   performanceThreshold : {55},
   maxPredictionHistory : {1, 2},
   modelTypes : {<<"LSTM", "XGBoost">>, <<"XGBoost">>}]
ConfigFields ==
  {"updateFrequency", "windowSize", "minSamplesForUpdate", "updateInterval",
   "enableAutoRetrain", "performanceThreshold", "maxPredictionHistory",
   "modelTypes"}

(* Program constants                                                       *)

MaxHistorySize == 10000
MaxUpdateHistory == 100

\* an operation and, for evaluatePrediction, the id it was called with
Op(name, id) == [name |-> name, id |-> id]

Null == <<>>
Some(v) == <<v>>

Min(a, b) == IF a < b THEN a ELSE b

Range(s) == {s[i] : i \in DOMAIN s}

----------------------------------------------------------------------------
(* PredictionLogger                                                        *)

IsEvaluated(p) == p.actualPrice # Null /\ p.isCorrect # Null

RECURSIVE InsertByTimestampDesc(_, _, _)
InsertByTimestampDesc(id, sorted, recs) ==
  IF sorted = <<>> THEN <<id>>
  ELSE IF recs[Head(sorted)].timestamp >= recs[id].timestamp
       THEN <<Head(sorted)>> \o InsertByTimestampDesc(id, Tail(sorted), recs)
       ELSE <<id>> \o sorted

\* Array.prototype.sort((a, b) => b.timestamp - a.timestamp): stable, newest first
RECURSIVE SortByTimestampDesc(_, _)
SortByTimestampDesc(ids, recs) ==
  IF ids = <<>> THEN <<>>
  ELSE InsertByTimestampDesc(ids[Len(ids)],
         SortByTimestampDesc(SubSeq(ids, 1, Len(ids) - 1), recs), recs)

getEvaluatedPredictions(preds, recs) ==
  SelectSeq(preds, LAMBDA id : IsEvaluated(recs[id]))

\* getRecentPredictions without the slice: the whole store, newest first
getRecentPredictions_WholeStore(preds, recs, limit) ==
  SortByTimestampDesc(preds, recs)

\* the limit most recent records of the store, newest first
getRecentPredictions(preds, recs, limit) ==
  SubSeq(SortByTimestampDesc(preds, recs), 1, Min(limit, Len(preds)))

\* cleanOldPredictions without the sort: keeps the first keepCount inserted
cleanOldPredictions_Unsorted(preds, recs, keepCount) ==
  SubSeq(preds, 1, Min(keepCount, Len(preds)))

cleanOldPredictions(preds, recs, keepCount) ==
  SubSeq(SortByTimestampDesc(preds, recs), 1, Min(keepCount, Len(preds)))

\* the Map after addPrediction(record); recs already holds the record
addPrediction(preds, recs, id, cap) ==
  LET set == IF id \in Range(preds) THEN preds ELSE Append(preds, id)
  IN IF Len(set) > cap THEN cleanOldPredictions(set, recs, cap) ELSE set

\* updatePrediction(record): the Map keeps its order; the object is replaced in place
updatePrediction(preds, recs, id, record) ==
  IF id \in Range(preds) THEN [recs EXCEPT ![id] = record] ELSE recs

\* JSON values, by their JSON type
JNull == [t |-> "null"]
JNumber(n) == [t |-> "number", v |-> n]
JString(str) == [t |-> "string", v |-> str]
JArray(seq) == [t |-> "array", v |-> seq]

\* JSON.stringify and JSON.parse of one entry of modelPredictions
SubPredictionToJSON(m) ==
  [model |-> JString(m.model), direction |-> JString(m.direction),
   confidence |-> JNumber(m.confidence)]

SubPredictionFromJSON(j) ==
  [model |-> j.model.v, direction |-> j.direction.v,
   confidence |-> j.confidence.v]

\* JSON.stringify of a field that is null or holds a value
Nullable(field, type) ==
  IF field = Null THEN JNull ELSE [t |-> type, v |-> field[1]]

\* JSON.stringify of one PredictionRecord
RecordToJSON(p) ==
  [id |-> JString(p.id), timestamp |-> JNumber(p.timestamp),
   currentPrice |-> JNumber(p.currentPrice),
   prediction |-> JString(p.prediction), confidence |-> JNumber(p.confidence),
   modelPredictions |->
     JArray([i \in DOMAIN p.modelPredictions |->
               SubPredictionToJSON(p.modelPredictions[i])]),
   actualPrice |-> Nullable(p.actualPrice, "number"),
   actualDirection |-> Nullable(p.actualDirection, "string"),
   isCorrect |-> Nullable(p.isCorrect, "boolean"),
   pnl |-> Nullable(p.pnl, "number"),
   pnlPercentage |-> Nullable(p.pnlPercentage, "number"),
   evaluatedAt |-> Nullable(p.evaluatedAt, "number")]

\* JSON.parse of a value that may be null
FromNullable(j) == IF j.t = "null" THEN Null ELSE Some(j.v)

\* JSON.parse of one object of the array
RecordFromJSON(j) ==
  [id |-> j.id.v, timestamp |-> j.timestamp.v,
   currentPrice |-> j.currentPrice.v, prediction |-> j.prediction.v,
   confidence |-> j.confidence.v,
   modelPredictions |->
     [i \in DOMAIN j.modelPredictions.v |->
        SubPredictionFromJSON(j.modelPredictions.v[i])],
   actualPrice |-> FromNullable(j.actualPrice),
   actualDirection |-> FromNullable(j.actualDirection),
   isCorrect |-> FromNullable(j.isCorrect),
   pnl |-> FromNullable(j.pnl),
   pnlPercentage |-> FromNullable(j.pnlPercentage),
   evaluatedAt |-> FromNullable(j.evaluatedAt)]

\* exportToJSON(): the records in Map order
exportToJSON(preds, recs) ==
  [i \in DOMAIN preds |-> RecordToJSON(recs[preds[i]])]

\* importFromJSON that empties the Map before it sets the records
RECURSIVE importFromJSON_ClearsFirst(_, _, _)
importFromJSON_ClearsFirst(preds, recs, json) ==
  IF json = <<>> THEN [predictions |-> <<>>, records |-> recs]
  ELSE LET rest == importFromJSON_ClearsFirst(preds, recs,
                     SubSeq(json, 1, Len(json) - 1))
           record == RecordFromJSON(json[Len(json)])
       IN [predictions |->
             IF record.id \in Range(rest.predictions) THEN rest.predictions
             ELSE Append(rest.predictions, record.id),
           records |->
             [id \in DOMAIN rest.records \cup {record.id} |->
                IF id = record.id THEN record ELSE rest.records[id]]]

\* importFromJSON(json): Map.set(record.id, record) for each parsed record
RECURSIVE importFromJSON(_, _, _)
importFromJSON(preds, recs, json) ==
  IF json = <<>> THEN [predictions |-> preds, records |-> recs]
  ELSE LET rest == importFromJSON(preds, recs, SubSeq(json, 1, Len(json) - 1))
           record == RecordFromJSON(json[Len(json)])
       IN [predictions |->
             IF record.id \in Range(rest.predictions) THEN rest.predictions
             ELSE Append(rest.predictions, record.id),
           records |->
             [id \in DOMAIN rest.records \cup {record.id} |->
                IF id = record.id THEN record ELSE rest.records[id]]]

\* getStats(): the counts, and the accuracy as the fraction correct / evaluated
getStats(preds, recs) ==
  LET evaluated == getEvaluatedPredictions(preds, recs)
      correct == SelectSeq(evaluated, LAMBDA id : recs[id].isCorrect = Some(TRUE))
      incorrect == SelectSeq(evaluated,
                             LAMBDA id : recs[id].isCorrect = Some(FALSE))
  IN [total |-> Len(preds),
      evaluated |-> Len(evaluated),
      pending |-> Len(SelectSeq(preds, LAMBDA id : ~IsEvaluated(recs[id]))),
      correct |-> Len(correct),
      incorrect |-> Len(incorrect),
      accuracy |-> IF Len(evaluated) > 0
                   THEN <<Len(correct), Len(evaluated)>> ELSE <<0, 1>>]

----------------------------------------------------------------------------
(* PerformanceTracker                                                      *)

NoModel == "none"

Last(s, n) == SubSeq(s, Len(s) - Min(n, Len(s)) + 1, Len(s))

addResult(res, byModel, result, modelType) ==
  LET pushed == Append(res, result)
      mine == IF modelType \in DOMAIN byModel
              THEN Append(byModel[modelType], result) ELSE <<result>>
  IN [results |-> IF Len(pushed) > MaxHistorySize
                  THEN Last(pushed, MaxHistorySize) ELSE pushed,
      resultsByModel |->
        IF modelType = NoModel THEN byModel
        ELSE [m \in DOMAIN byModel \cup {modelType} |->
                IF m = modelType
                THEN (IF Len(mine) > MaxHistorySize
                      THEN Last(mine, MaxHistorySize) ELSE mine)
                ELSE byModel[m]]]

CorrectCount(res) == Len(SelectSeq(res, LAMBDA r : r.isCorrect))

\* getOverallPerformance(): calculateMetrics over the global sequence, the
\* accuracy as the fraction correctPredictions / totalPredictions
getOverallPerformance(res) ==
  IF Len(res) = 0
  THEN [totalPredictions |-> 0, correctPredictions |-> 0, accuracy |-> <<0, 1>>]
  ELSE [totalPredictions |-> Len(res),
        correctPredictions |-> CorrectCount(res),
        accuracy |-> <<CorrectCount(res), Len(res)>>]

\* the accuracy gate with <= in place of <
AccuracyBelow_Inclusive(res, threshold) ==
  IF Len(res) = 0 THEN 0 <= threshold
  ELSE CorrectCount(res) * 100 <= threshold * Len(res)

\* getOverallPerformance().accuracy < threshold, both in percent
AccuracyBelow(res, threshold) ==
  IF Len(res) = 0 THEN 0 < threshold
  ELSE CorrectCount(res) * 100 < threshold * Len(res)

----------------------------------------------------------------------------
(* The heap keeps the records something still refers to                    *)

Live(preds, cycs) ==
  Range(preds) \cup UNION {Range(cycs[k].recent) : k \in DOMAIN cycs}

Collect(recs, preds, cycs) ==
  [id \in Live(preds, cycs) |-> recs[id]]

----------------------------------------------------------------------------
(* ModelUpdater                                                            *)

\* updateModel up to its first await: filter, sample gate, trainModel call
BeginUpdateModel(c, i, recs, ucfg) ==
  LET evaluatedPredictions ==
        SelectSeq(c.recent, LAMBDA id : IsEvaluated(recs[id]))
      called == [c EXCEPT !.idx = i, !.attempted = Append(@, c.models[i])]
  IN IF Len(evaluatedPredictions) < ucfg.minSamplesForUpdate
     THEN [called EXCEPT !.phase = "resolved", !.samples = 0]
     ELSE [called EXCEPT !.phase = "training",
                         !.samples = Len(evaluatedPredictions)]

\* updateModel after trainModel returned
RecordSuccess(hist, t, modelType, samples) ==
  LET pushed == Append(hist, [timestamp |-> t, modelType |-> modelType,
                              samplesUsed |-> samples, success |-> TRUE])
  IN IF Len(pushed) > MaxUpdateHistory
     THEN Last(pushed, MaxUpdateHistory) ELSE pushed

\* a catch block that rethrows without recording the attempt
RecordFailure_NotRecorded(hist, t, modelType) == hist

\* updateModel's catch block, which rethrows
RecordFailure(hist, t, modelType) ==
  Append(hist, [timestamp |-> t, modelType |-> modelType,
                samplesUsed |-> 0, success |-> FALSE])

----------------------------------------------------------------------------
(* OnlineLearningManager                                                   *)

Init ==
  /\ now = 1
  /\ nextId = 1
  /\ records = [id \in {} |-> Null]
  /\ predictions = <<>>
  /\ config \in InitConfigs
  /\ maxHistory = config.maxPredictionHistory
  /\ updaterConfig = config
  /\ results = <<>>
  /\ resultsByModel = [m \in {} |-> <<>>]
  /\ updateHistory = <<>>
  /\ isUpdating = FALSE
  /\ lastUpdateTimestamp = 0
  /\ cycles = <<>>
  /\ thrown = FALSE
  /\ lastOp = Op("init", 0)

NewRecord(id, t, direction, confidence, currentPrice, modelPredictions) ==
  [id |-> id, timestamp |-> t, currentPrice |-> currentPrice,
   prediction |-> direction, confidence |-> confidence,
   modelPredictions |-> modelPredictions,
   actualPrice |-> Null, actualDirection |-> Null, isCorrect |-> Null,
   pnl |-> Null, pnlPercentage |-> Null, evaluatedAt |-> Null]

logPrediction(direction, confidence, currentPrice, modelPredictions) ==
  LET id == nextId
      record == NewRecord(id, now, direction, confidence, currentPrice,
                          modelPredictions)
      recs1 == [i \in DOMAIN records \cup {id} |->
                  IF i = id THEN record ELSE records[i]]
      preds1 == addPrediction(predictions, recs1, id, maxHistory)
  IN /\ nextId' = nextId + 1
     /\ predictions' = preds1
     /\ records' = Collect(recs1, preds1, cycles)
     /\ lastOp' = Op("logPrediction", 0)
     /\ UNCHANGED <<now, maxHistory, results, resultsByModel, config,
                    updaterConfig, updateHistory, isUpdating,
                    lastUpdateTimestamp, cycles, thrown>>

\* priceChangePercent in hundredths of a percent
PriceChangePercent(actualPrice, currentPrice) ==
  ((actualPrice - currentPrice) * 10000) \div currentPrice

\* the thresholds taken inclusively
ActualDirection_Inclusive(pct) ==
  IF pct >= 50 THEN "UP" ELSE IF pct <= -50 THEN "DOWN" ELSE "NEUTRAL"

ActualDirection(pct) ==
  IF pct > 50 THEN "UP" ELSE IF pct < -50 THEN "DOWN" ELSE "NEUTRAL"

\* Evaluate without the evaluatedAt assignment
Evaluate_NoEvaluatedAt(record, actualPrice, t) ==
  LET pct == PriceChangePercent(actualPrice, record.currentPrice)
      actualDirection == ActualDirection(pct)
  IN [record EXCEPT !.actualPrice = Some(actualPrice),
                    !.actualDirection = Some(actualDirection),
                    !.isCorrect = Some(record.prediction = actualDirection),
                    !.pnl = Some(actualPrice - record.currentPrice),
                    !.pnlPercentage = Some(pct)]

\* the record object after evaluatePrediction's six assignments
Evaluate(record, actualPrice, t) ==
  LET pct == PriceChangePercent(actualPrice, record.currentPrice)
      actualDirection == ActualDirection(pct)
  IN [record EXCEPT !.actualPrice = Some(actualPrice),
                    !.actualDirection = Some(actualDirection),
                    !.isCorrect = Some(record.prediction = actualDirection),
                    !.pnl = Some(actualPrice - record.currentPrice),
                    !.pnlPercentage = Some(pct),
                    !.evaluatedAt = Some(t)]

ScoredOutcome(record, t) ==
  [timestamp |-> t, isCorrect |-> record.isCorrect[1], pnl |-> record.pnl[1],
   pnlPercentage |-> record.pnlPercentage[1],
   confidence |-> record.confidence, prediction |-> record.prediction,
   actual |-> record.actualDirection[1]]

\* updateModels without its isUpdating test
UpdateGuard_Absent(updating) == TRUE

\* the isUpdating test that opens updateModels
UpdateGuard(updating) == ~updating

\* the end of updateModels without the finally block
FinishCycle_NoFinally(k, recs) ==
  LET cycs1 == SubSeq(cycles, 1, k - 1) \o SubSeq(cycles, k + 1, Len(cycles))
      preds1 == cleanOldPredictions(predictions, recs,
                                    config.maxPredictionHistory)
  IN /\ lastUpdateTimestamp' = now
     /\ predictions' = preds1
     /\ isUpdating' = isUpdating
     /\ cycles' = cycs1
     /\ records' = Collect(recs, preds1, cycs1)

\* the end of updateModels without the cleanOldPredictions call
FinishCycle_NoEviction(k, recs) ==
  LET cycs1 == SubSeq(cycles, 1, k - 1) \o SubSeq(cycles, k + 1, Len(cycles))
  IN /\ lastUpdateTimestamp' = now
     /\ predictions' = predictions
     /\ isUpdating' = FALSE
     /\ cycles' = cycs1
     /\ records' = Collect(recs, predictions, cycs1)

\* the end of updateModels' try block and its finally, for the cycle at k
FinishCycle(k, recs) ==
  LET cycs1 == SubSeq(cycles, 1, k - 1) \o SubSeq(cycles, k + 1, Len(cycles))
      preds1 == cleanOldPredictions(predictions, recs,
                                    config.maxPredictionHistory)
  IN /\ lastUpdateTimestamp' = now
     /\ predictions' = preds1
     /\ isUpdating' = FALSE
     /\ cycles' = cycs1
     /\ records' = Collect(recs, preds1, cycs1)

\* updateModels(multiTimeframeData) up to its first await; recs and res are
\* the heap and the tracker as the caller left them
updateModels(recs, res) ==
  /\ results' = res
  /\ UNCHANGED <<now, nextId, maxHistory, config, updaterConfig,
                 updateHistory, thrown>>
  /\ IF ~UpdateGuard(isUpdating)
     THEN /\ records' = recs
          /\ UNCHANGED <<predictions, isUpdating, lastUpdateTimestamp, cycles>>
     ELSE LET recentPredictions ==
                getRecentPredictions(predictions, recs, config.windowSize)
              c0 == [models |-> config.modelTypes, idx |-> 0,
                     recent |-> recentPredictions, phase |-> "resolved",
                     samples |-> 0, attempted |-> <<>>]
          IN IF Len(c0.models) = 0
             THEN /\ lastUpdateTimestamp' = now
                  /\ predictions' =
                       cleanOldPredictions(predictions, recs,
                                           config.maxPredictionHistory)
                  /\ isUpdating' = FALSE
                  /\ cycles' = cycles
                  /\ records' = Collect(recs, predictions', cycles)
             ELSE /\ isUpdating' = TRUE
                  /\ cycles' = Append(cycles,
                                 BeginUpdateModel(c0, 1, recs, updaterConfig))
                  /\ records' = recs
                  /\ UNCHANGED <<predictions, lastUpdateTimestamp>>

\* the sample gate compared the wrong way round
EnoughSamples_Inverted(evaluatedCount, minSamples) ==
  ~(evaluatedCount > minSamples)

\* checkAndUpdateModels without its sample gate
EnoughSamples_NotTested(evaluatedCount, minSamples) == TRUE

\* checkAndUpdateModels' sample gate
EnoughSamples(evaluatedCount, minSamples) == ~(evaluatedCount < minSamples)

\* the gates of checkAndUpdateModels
ShouldRetrain(recs, res) ==
  /\ ~isUpdating
  /\ EnoughSamples(Len(getEvaluatedPredictions(predictions, recs)),
                   config.minSamplesForUpdate)
  /\ ~(config.updateFrequency = "window"
       /\ now - lastUpdateTimestamp < config.updateInterval)
  /\ AccuracyBelow(res, config.performanceThreshold)

checkAndUpdateModels(hasData, recs, res) ==
  IF ShouldRetrain(recs, res) /\ hasData
  THEN updateModels(recs, res)
  ELSE /\ records' = recs
       /\ results' = res
       /\ UNCHANGED <<now, nextId, predictions, maxHistory, config,
                      updaterConfig, updateHistory, isUpdating,
                      lastUpdateTimestamp, cycles, thrown>>

\* a store that hides its records while a cycle is in progress
getPrediction_LockedWhileUpdating(preds, recs, id) ==
  IF id \in Range(preds) /\ ~isUpdating THEN Some(recs[id]) ELSE Null

\* getPrediction(id): the Map's record, or undefined
getPrediction(preds, recs, id) ==
  IF id \in Range(preds) THEN Some(recs[id]) ELSE Null

\* the branch without its return: record.currentPrice of undefined throws
evaluateMissing_NoReturn ==
  /\ thrown' = TRUE
  /\ UNCHANGED <<now, nextId, records, predictions, maxHistory, results,
                 resultsByModel, config, updaterConfig, updateHistory,
                 isUpdating, lastUpdateTimestamp, cycles>>

\* the `if (!record)` branch of evaluatePrediction: a warning and a return
evaluateMissing ==
  UNCHANGED <<now, nextId, records, predictions, maxHistory, results,
              resultsByModel, config, updaterConfig, updateHistory,
              isUpdating, lastUpdateTimestamp, cycles, thrown>>

\* evaluatePrediction that files the outcome under the ensemble's first
\* sub-model
evaluatePrediction_AttributesResult(predictionId, actualPrice) ==
  /\ lastOp' = Op("evaluatePrediction", predictionId)
  /\ IF getPrediction(predictions, records, predictionId) = Null
     THEN evaluateMissing
     ELSE LET record == Evaluate(records[predictionId], actualPrice, now)
              recs1 == updatePrediction(predictions,
                         [records EXCEPT ![predictionId] = record],
                         predictionId, record)
              added == addResult(results, resultsByModel,
                                 ScoredOutcome(record, now),
                                 IF record.modelPredictions = <<>>
                                 THEN NoModel
                                 ELSE record.modelPredictions[1].model)
          IN /\ resultsByModel' = added.resultsByModel
             /\ checkAndUpdateModels(FALSE, recs1, added.results)

\* evaluatePrediction handing a dataset to the decision check
evaluatePrediction_PassesData(predictionId, actualPrice) ==
  /\ lastOp' = Op("evaluatePrediction", predictionId)
  /\ IF getPrediction(predictions, records, predictionId) = Null
     THEN evaluateMissing
     ELSE LET record == Evaluate(records[predictionId], actualPrice, now)
              recs1 == updatePrediction(predictions,
                         [records EXCEPT ![predictionId] = record],
                         predictionId, record)
              added == addResult(results, resultsByModel,
                                 ScoredOutcome(record, now), NoModel)
          IN /\ resultsByModel' = added.resultsByModel
             /\ checkAndUpdateModels(TRUE, recs1, added.results)

evaluatePrediction(predictionId, actualPrice) ==
  /\ lastOp' = Op("evaluatePrediction", predictionId)
  /\ IF getPrediction(predictions, records, predictionId) = Null
     THEN evaluateMissing
     ELSE LET record == Evaluate(records[predictionId], actualPrice, now)
              recs1 == updatePrediction(predictions,
                         [records EXCEPT ![predictionId] = record],
                         predictionId, record)
              added == addResult(results, resultsByModel,
                                 ScoredOutcome(record, now), NoModel)
          IN /\ resultsByModel' = added.resultsByModel
             /\ checkAndUpdateModels(FALSE, recs1, added.results)

\* processNewCandle without the enableAutoRetrain test
processNewCandle_IgnoresAutoRetrain ==
  IF config.updateFrequency = "candle"
  THEN /\ lastOp' = Op("processNewCandle", 0)
       /\ UNCHANGED resultsByModel
       /\ checkAndUpdateModels(TRUE, records, results)
  ELSE /\ lastOp' = Op("processNewCandle", 0)
       /\ UNCHANGED <<now, nextId, records, predictions, maxHistory, results,
                      resultsByModel, config, updaterConfig, updateHistory,
                      isUpdating, lastUpdateTimestamp, cycles, thrown>>

processNewCandle ==
  IF config.updateFrequency = "candle" /\ config.enableAutoRetrain
  THEN /\ lastOp' = Op("processNewCandle", 0)
       /\ UNCHANGED resultsByModel
       /\ checkAndUpdateModels(TRUE, records, results)
  ELSE /\ lastOp' = Op("processNewCandle", 0)
       /\ UNCHANGED <<now, nextId, records, predictions, maxHistory, results,
                      resultsByModel, config, updaterConfig, updateHistory,
                      isUpdating, lastUpdateTimestamp, cycles, thrown>>

\* forceUpdate sent through the decision check
forceUpdate_Gated ==
  /\ lastOp' = Op("forceUpdate", 0)
  /\ UNCHANGED resultsByModel
  /\ checkAndUpdateModels(TRUE, records, results)

forceUpdate ==
  /\ lastOp' = Op("forceUpdate", 0)
  /\ UNCHANGED resultsByModel
  /\ updateModels(records, results)

\* a Partial<OnlineLearningConfig>: the fields of `full` named in `fields`
Partial(full, fields) == [f \in fields |-> full[f]]

\* { ...this.config, ...newConfig }
Spread(cfg, newConfig) ==
  [f \in DOMAIN cfg \cup DOMAIN newConfig |->
     IF f \in DOMAIN newConfig THEN newConfig[f] ELSE cfg[f]]

\* updateConfig that does not hand the configuration to the ModelUpdater
updateConfig_NotForwarded(newConfig) ==
  /\ config' = Spread(config, newConfig)
  /\ updaterConfig' = updaterConfig
  /\ lastOp' = [name |-> "updateConfig", id |-> 0, partial |-> newConfig]
  /\ UNCHANGED <<now, nextId, records, predictions, maxHistory, results,
                 resultsByModel, updateHistory, isUpdating,
                 lastUpdateTimestamp, cycles, thrown>>

\* updateConfig that also resizes the PredictionLogger
updateConfig_ResizesStore(newConfig) ==
  /\ config' = Spread(config, newConfig)
  /\ updaterConfig' = config'
  /\ maxHistory' = config'.maxPredictionHistory
  /\ lastOp' = [name |-> "updateConfig", id |-> 0, partial |-> newConfig]
  /\ UNCHANGED <<now, nextId, records, predictions, results,
                 resultsByModel, updateHistory, isUpdating,
                 lastUpdateTimestamp, cycles, thrown>>

updateConfig(newConfig) ==
  /\ config' = Spread(config, newConfig)
  /\ updaterConfig' = config'
  /\ lastOp' = [name |-> "updateConfig", id |-> 0, partial |-> newConfig]
  /\ UNCHANGED <<now, nextId, records, predictions, maxHistory, results,
                 resultsByModel, updateHistory, isUpdating,
                 lastUpdateTimestamp, cycles, thrown>>

\* MLPipeline.trainModel returns to the updateModel call of cycle k
TrainReturns(k) ==
  /\ k \in DOMAIN cycles
  /\ cycles[k].phase = "training"
  /\ updateHistory' = RecordSuccess(updateHistory, now,
                        cycles[k].models[cycles[k].idx], cycles[k].samples)
  /\ cycles' = [cycles EXCEPT ![k].phase = "resolved"]
  /\ lastOp' = Op("TrainReturns", 0)
  /\ UNCHANGED <<now, nextId, records, predictions, maxHistory, results,
                 resultsByModel, config, updaterConfig, isUpdating,
                 lastUpdateTimestamp, thrown>>

\* MLPipeline.trainModel raises into the updateModel call of cycle k
TrainRaises(k) ==
  /\ k \in DOMAIN cycles
  /\ cycles[k].phase = "training"
  /\ updateHistory' = RecordFailure(updateHistory, now,
                        cycles[k].models[cycles[k].idx])
  /\ cycles' = [cycles EXCEPT ![k].phase = "rejected"]
  /\ lastOp' = Op("TrainRaises", 0)
  /\ UNCHANGED <<now, nextId, records, predictions, maxHistory, results,
                 resultsByModel, config, updaterConfig, isUpdating,
                 lastUpdateTimestamp, thrown>>

\* the loop without its per-model try/catch
LoopContinues_NoCatch(phase) == phase = "resolved"

\* what the loop of updateModels does with a settled updateModel call:
\* its catch swallows a rejection and the loop goes on
LoopContinues(phase) == phase \in {"resolved", "rejected"}

\* updateModels resumes after `await this.modelUpdater.updateModel(...)`
ResumeCycle(k) ==
  /\ k \in DOMAIN cycles
  /\ cycles[k].phase \in {"resolved", "rejected"}
  /\ lastOp' = Op("ResumeCycle", 0)
  /\ UNCHANGED <<now, nextId, maxHistory, results, resultsByModel, config,
                 updaterConfig, updateHistory>>
  /\ IF ~LoopContinues(cycles[k].phase)
     THEN \* the rejection leaves the loop: outer catch rethrows, finally runs
          /\ thrown' = TRUE
          /\ isUpdating' = FALSE
          /\ cycles' = SubSeq(cycles, 1, k - 1)
                         \o SubSeq(cycles, k + 1, Len(cycles))
          /\ records' = Collect(records, predictions, cycles')
          /\ UNCHANGED <<predictions, lastUpdateTimestamp>>
     ELSE IF cycles[k].idx < Len(cycles[k].models)
     THEN /\ cycles' = [cycles EXCEPT ![k] =
                          BeginUpdateModel(cycles[k], cycles[k].idx + 1,
                                           records, updaterConfig)]
          /\ UNCHANGED <<records, predictions, isUpdating,
                         lastUpdateTimestamp, thrown>>
     ELSE /\ FinishCycle(k, records)
          /\ UNCHANGED thrown

Tick ==
  /\ now < MaxTime
  /\ now' = now + 1
  /\ lastOp' = Op("Tick", 0)
  /\ UNCHANGED <<nextId, records, predictions, maxHistory, results,
                 resultsByModel, config, updaterConfig, updateHistory,
                 isUpdating, lastUpdateTimestamp, cycles, thrown>>

LogStep ==
  /\ nextId <= MaxPredictions
  /\ \E d \in LoggedDirections, c \in Confidences, p \in CurrentPrices,
        m \in ModelPredictions :
       logPrediction(d, c, p, m)

EvaluateStep ==
  /\ Len(results) < MaxResults
  /\ \E id \in PredictionIds, p \in EvaluatedPrices : evaluatePrediction(id, p)

CandleStep ==
  /\ Len(updateHistory) < MaxUpdates
  /\ processNewCandle

ForceStep ==
  /\ Len(updateHistory) < MaxUpdates
  /\ forceUpdate

CycleStep == \E k \in DOMAIN cycles : ResumeCycle(k)

TrainStep == \E k \in DOMAIN cycles : TrainReturns(k) \/ TrainRaises(k)

Next ==
  \/ LogStep
  \/ EvaluateStep
  \/ CandleStep
  \/ ForceStep
  \/ TrainStep
  \/ CycleStep
  \/ Tick

Spec == Init /\ [][Next]_vars

\* the event loop resumes a settled await, and every call of the training
\* capability returns or raises
Fairness == WF_vars(CycleStep) /\ WF_vars(TrainStep)

FairInit ==
  /\ Init
  /\ config.minSamplesForUpdate = 1
  /\ config.enableAutoRetrain

FairSpec == FairInit /\ [][Next]_vars /\ Fairness

\* the logger and the tracker alone: predictions are logged and evaluated,
\* nothing retrains
StoreInit ==
  /\ Init
  /\ config.updateFrequency = "manual"
  /\ config.enableAutoRetrain
  /\ config.minSamplesForUpdate = 1

StoreLogStep ==
  /\ nextId <= MaxPredictions
  /\ \E d \in Directions, c \in Confidences, p \in CurrentPrices,
        m \in ModelPredictions :
       logPrediction(d, c, p, m)

StoreEvaluateStep ==
  /\ Len(results) < MaxResults
  /\ \E id \in PredictionIds, p \in ActualPrices : evaluatePrediction(id, p)

StoreNext ==
  \/ StoreLogStep
  \/ StoreEvaluateStep
  \/ Tick

StoreSpec == StoreInit /\ [][StoreNext]_vars

\* the outcome computation of evaluatePrediction alone: records of every
\* predicted direction and reference price meet every actual price
DirectionLogStep ==
  /\ nextId <= MaxLogged
  /\ \E d \in Directions, c \in Confidences, p \in DirectionCurrentPrices,
        m \in ModelPredictions :
       logPrediction(d, c, p, m)

DirectionEvaluateStep ==
  /\ Len(results) < MaxResults
  /\ \E id \in PredictionIds, p \in DirectionActualPrices :
       evaluatePrediction(id, p)

DirectionNext ==
  \/ DirectionLogStep
  \/ DirectionEvaluateStep

DirectionSpec == StoreInit /\ [][DirectionNext]_vars

\* the update history alone: one evaluated prediction and forced cycles whose
\* trainings raise, all but a bounded number of them
HistoryInit ==
  /\ Init
  /\ config.updateFrequency = "manual"
  /\ ~config.enableAutoRetrain
  /\ config.minSamplesForUpdate = 1

SuccessCount(hist) == Len(SelectSeq(hist, LAMBDA u : u.success))

HistoryLogStep ==
  /\ nextId <= MaxLogged
  /\ \E d \in LoggedDirections, c \in Confidences, p \in CurrentPrices,
        m \in ModelPredictions :
       logPrediction(d, c, p, m)

HistoryEvaluateStep ==
  /\ Len(results) < MaxLogged
  /\ \E id \in 1..MaxLogged, p \in EvaluatedPrices : evaluatePrediction(id, p)

HistoryForceStep ==
  /\ Len(updateHistory) <= MaxUpdateHistory
  /\ forceUpdate

HistoryTrainStep ==
  \E k \in DOMAIN cycles :
    \/ TrainRaises(k)
    \/ SuccessCount(updateHistory) < MaxSuccesses /\ TrainReturns(k)

HistoryNext ==
  \/ HistoryLogStep
  \/ HistoryEvaluateStep
  \/ HistoryForceStep
  \/ HistoryTrainStep
  \/ CycleStep

HistorySpec == HistoryInit /\ [][HistoryNext]_vars

\* the controller of one prediction whose configuration is replaced at run
\* time, between and during retrain cycles
ConfigInit ==
  /\ Init
  /\ config.updateFrequency = "candle"
  /\ config.enableAutoRetrain
  /\ config.minSamplesForUpdate = 1

\* the partials of at most MaxPartialFields fields
ConfigPartials ==
  {Partial(full, fields) :
     full \in ConfigValues,
     fields \in {S \in SUBSET ConfigFields : Cardinality(S) <= MaxPartialFields}}

UpdateConfigStep == \E newConfig \in ConfigPartials : updateConfig(newConfig)

ConfigNext ==
  \/ UpdateConfigStep
  \/ HistoryLogStep
  \/ HistoryEvaluateStep
  \/ CandleStep
  \/ ForceStep
  \/ TrainStep
  \/ CycleStep

ConfigSpec == ConfigInit /\ [][ConfigNext]_vars

\* the decision check over several cycles: 'candle' mode with auto-retrain,
\* every cycle started by processNewCandle
GateInit ==
  /\ Init
  /\ config.updateFrequency = "candle"
  /\ config.enableAutoRetrain
  /\ config.minSamplesForUpdate = 1

GateCandleStep ==
  /\ Len(updateHistory) <= MaxGateHistory
  /\ processNewCandle

GateNext ==
  \/ LogStep
  \/ HistoryEvaluateStep
  \/ GateCandleStep
  \/ TrainStep
  \/ CycleStep
  \/ Tick

GateSpec == GateInit /\ [][GateNext]_vars

\* a PredictionLogger whose records are exported by another logger's
\* exportToJSON and read back by importFromJSON
ImportedIds == 1..MaxImported

ImportedRecords(id) ==
  LET logged == {NewRecord(id, 1, d, c, p, m) :
                   d \in LoggedDirections, c \in Confidences,
                   p \in CurrentPrices, m \in ModelPredictions}
  IN logged \cup {Evaluate(r, a, 1) : r \in logged, a \in ImportedPrices}

IdOrders ==
  {ids \in UNION {[1..n -> ImportedIds] : n \in 0..MaxImported} :
     \A i, j \in DOMAIN ids : i # j => ids[i] # ids[j]}

\* the Maps a logger can hold: distinct ids in insertion order
SourceStores ==
  UNION {{[predictions |-> ids, records |-> rs] :
            rs \in {f \in [Range(ids) ->
                              UNION {ImportedRecords(id) : id \in ImportedIds}] :
                      \A id \in Range(ids) : f[id].id = id}} :
         ids \in IdOrders}

\* importFromJSON(source.exportToJSON()); ids are unique, so the text names
\* only ids that were generated
importStep(source) ==
  LET json == exportToJSON(source.predictions, source.records)
      imported == importFromJSON(predictions, records, json)
  IN /\ Range(source.predictions) \subseteq 1..(nextId - 1)
     /\ predictions' = imported.predictions
     /\ records' = Collect(imported.records, imported.predictions, cycles)
     /\ lastOp' = [name |-> "importFromJSON", id |-> 0, source |-> source]
     /\ UNCHANGED <<now, nextId, maxHistory, results, resultsByModel, config,
                    updaterConfig, updateHistory, isUpdating,
                    lastUpdateTimestamp, cycles, thrown>>

\* PredictionLogger.clear()
clear ==
  /\ predictions' = <<>>
  /\ records' = Collect(records, <<>>, cycles)
  /\ lastOp' = Op("clear", 0)
  /\ UNCHANGED <<now, nextId, maxHistory, results, resultsByModel, config,
                 updaterConfig, updateHistory, isUpdating,
                 lastUpdateTimestamp, cycles, thrown>>

ImportLogStep ==
  /\ nextId <= MaxImported
  /\ \E d \in LoggedDirections, c \in Confidences, p \in CurrentPrices,
        m \in ModelPredictions :
       logPrediction(d, c, p, m)

ImportEvaluateStep ==
  /\ Len(results) < MaxLogged
  /\ \E id \in ImportedIds, p \in EvaluatedPrices : evaluatePrediction(id, p)

ImportStep == \E source \in SourceStores : importStep(source)

ImportNext ==
  \/ ImportLogStep
  \/ ImportEvaluateStep
  \/ ImportStep
  \/ clear

ImportSpec == StoreInit /\ [][ImportNext]_vars

\* the controller as its constructor leaves it, for a configuration of configs
InitWith(configs) ==
  /\ now = 1
  /\ nextId = 1
  /\ records = [id \in {} |-> Null]
  /\ predictions = <<>>
  /\ config \in configs
  /\ maxHistory = config.maxPredictionHistory
  /\ updaterConfig = config
  /\ results = <<>>
  /\ resultsByModel = [m \in {} |-> <<>>]
  /\ updateHistory = <<>>
  /\ isUpdating = FALSE
  /\ lastUpdateTimestamp = 0
  /\ cycles = <<>>
  /\ thrown = FALSE
  /\ lastOp = Op("init", 0)

\* the decision check with a window that can be smaller than the store and an
\* accuracy that can equal the threshold
DecisionConfigs ==
  [updateFrequency : {"candle"}, windowSize : {1, 2},
   minSamplesForUpdate : {1, 2}, updateInterval : {1},
   enableAutoRetrain : {TRUE}, performanceThreshold : {50},
   maxPredictionHistory : {2}, modelTypes : {<<"LSTM", "XGBoost">>}]

DecisionInit == InitWith(DecisionConfigs)

DecisionLogStep ==
  /\ nextId <= MaxWindowed
  /\ \E d \in LoggedDirections, c \in Confidences, p \in CurrentPrices,
        m \in ModelPredictions :
       logPrediction(d, c, p, m)

DecisionNext ==
  \/ DecisionLogStep
  \/ EvaluateStep
  \/ CandleStep
  \/ TrainStep
  \/ CycleStep
  \/ Tick

DecisionSpec == DecisionInit /\ [][DecisionNext]_vars

\* the store's capacity against the configured history size, which
\* updateConfig moves below and above the value the controller was built with
CapacityConfigs ==
  [updateFrequency : {"candle"}, windowSize : {2}, minSamplesForUpdate : {1},
   updateInterval : {1}, enableAutoRetrain : {TRUE},
   performanceThreshold : {55}, maxPredictionHistory : {2},
   modelTypes : {<<"LSTM", "XGBoost">>}]

CapacityInit == InitWith(CapacityConfigs)

HistorySizes == {1, 3}

CapacityConfigStep ==
  \E n \in HistorySizes : updateConfig([maxPredictionHistory |-> n])

CapacityNext ==
  \/ CapacityConfigStep
  \/ LogStep
  \/ HistoryEvaluateStep
  \/ CandleStep
  \/ ForceStep
  \/ TrainStep
  \/ CycleStep

CapacitySpec == CapacityInit /\ [][CapacityNext]_vars

\* forced cycles over predictions logged at different times, with the
\* configured history size moved below the store's capacity
EvictionConfigStep == updateConfig([maxPredictionHistory |-> 1])

EvictionNext ==
  \/ EvictionConfigStep
  \/ DecisionLogStep
  \/ HistoryEvaluateStep
  \/ ForceStep
  \/ TrainStep
  \/ CycleStep
  \/ Tick

EvictionSpec == CapacityInit /\ [][EvictionNext]_vars

\* one prediction under every trigger mode, with and without auto-retrain
ModeNext ==
  \/ HistoryLogStep
  \/ HistoryEvaluateStep
  \/ CandleStep
  \/ ForceStep
  \/ TrainStep
  \/ CycleStep
  \/ Tick

ModeSpec == Init /\ [][ModeNext]_vars

\* reset() that also drops the Updating flag
reset_ClearsFlag ==
  /\ predictions' = <<>>
  /\ records' = Collect(records, <<>>, cycles)
  /\ results' = <<>>
  /\ resultsByModel' = [m \in {} |-> <<>>]
  /\ lastUpdateTimestamp' = 0
  /\ isUpdating' = FALSE
  /\ lastOp' = Op("reset", 0)
  /\ UNCHANGED <<now, nextId, maxHistory, config, updaterConfig,
                 updateHistory, cycles, thrown>>

\* reset(): predictionLogger.clear(), performanceTracker.reset() and
\* lastUpdateTimestamp = 0
reset ==
  /\ predictions' = <<>>
  /\ records' = Collect(records, <<>>, cycles)
  /\ results' = <<>>
  /\ resultsByModel' = [m \in {} |-> <<>>]
  /\ lastUpdateTimestamp' = 0
  /\ lastOp' = Op("reset", 0)
  /\ UNCHANGED <<now, nextId, maxHistory, config, updaterConfig,
                 updateHistory, isUpdating, cycles, thrown>>

\* the controller of one prediction that is reset between and during cycles
ResetNext ==
  \/ reset
  \/ HistoryLogStep
  \/ HistoryEvaluateStep
  \/ CandleStep
  \/ ForceStep
  \/ TrainStep
  \/ CycleStep
  \/ Tick

ResetSpec == GateInit /\ [][ResetNext]_vars /\ Fairness

\* the logger and the tracker fed with ensembles of every shape
EnsembleLogStep ==
  /\ nextId <= MaxPredictions
  /\ \E d \in LoggedDirections, c \in Confidences, p \in CurrentPrices,
        m \in EnsemblePredictions :
       logPrediction(d, c, p, m)

EnsembleNext ==
  \/ EnsembleLogStep
  \/ EvaluateStep

EnsembleSpec == StoreInit /\ [][EnsembleNext]_vars

----------------------------------------------------------------------------
(* Claims about the logger and the tracker, checked under StoreSpec         *)

OutcomeFields(p) ==
  <<p.actualPrice, p.actualDirection, p.isCorrect, p.pnl, p.pnlPercentage,
    p.evaluatedAt>>

AllNull(p) == \A i \in 1..6 : OutcomeFields(p)[i] = Null

AllSet(p) == \A i \in 1..6 : OutcomeFields(p)[i] # Null

\* C1: every record of the store has its six outcome fields all null or all
\* set, never a mixture
C1_OutcomeAllOrNothing ==
  \A id \in Range(predictions) : AllNull(records[id]) \/ AllSet(records[id])

\* a store holding a pending record beside an evaluated one
C1_Witness ==
  /\ \E id \in Range(predictions) : AllNull(records[id])
  /\ \E id \in Range(predictions) :
       AllSet(records[id]) /\ ~AllNull(records[id])

\* the timestamp of a record that a logPrediction step saw: the new record
\* carries the current time
TimestampBefore(id) == IF id = nextId THEN now ELSE records[id].timestamp

C6_EvaluatedNeverChanges ==
  [][\A id \in Range(predictions) :
       (IsEvaluated(records[id]) /\ id \in Range(predictions'))
         => records'[id] = records[id]]_vars

\* C7: an outcome is appended to the tracker's global sequence only by a step
\* in which a record goes from pending to evaluated
C7_OneOutcomePerRecord ==
  [][Len(results') > Len(results) =>
       \E id \in Range(predictions) :
         ~IsEvaluated(records[id]) /\ IsEvaluated(records'[id])]_vars

\* C10: evaluatePrediction with an id the store does not hold raises nothing
\* and changes neither the store, the tracker, the flag nor
\* lastUpdateTimestamp
C10_UnknownIdIsNoOp ==
  [][(lastOp'.name = "evaluatePrediction"
        /\ lastOp'.id \notin Range(predictions))
       => UNCHANGED <<records, predictions, results, resultsByModel,
                      isUpdating, lastUpdateTimestamp, cycles, updateHistory,
                      thrown>>]_vars

\* evaluatePrediction was just called with the id of an evicted record while
\* the store and the tracker hold data
C10_Witness ==
  /\ lastOp.name = "evaluatePrediction"
  /\ lastOp.id < nextId
  /\ lastOp.id \notin Range(predictions)
  /\ Len(results) > 0
  /\ ~thrown

\* C11: evaluatePrediction on a pending record sets actualDirection to UP when
\* the change from the reference price is strictly above 0.5 percent, DOWN
\* when strictly below -0.5 percent and NEUTRAL otherwise, whatever was
\* predicted, and isCorrect to whether the prediction equals that direction
C11_DirectionThresholds ==
  [][\A id \in Range(predictions) :
       (lastOp'.name = "evaluatePrediction" /\ lastOp'.id = id
          /\ ~IsEvaluated(records[id]))
       => LET c == records[id].currentPrice
              a == records'[id].actualPrice[1]
              dir == IF (a - c) * 1000 > 5 * c THEN "UP"
                     ELSE IF (a - c) * 1000 < -(5 * c) THEN "DOWN"
                     ELSE "NEUTRAL"
          IN /\ records'[id].actualDirection = Some(dir)
             /\ records'[id].isCorrect = Some(records[id].prediction = dir)]_vars

\* a NEUTRAL prediction met a change of exactly +0.5 percent and was scored
\* correct
C11_Witness ==
  /\ lastOp.name = "evaluatePrediction"
  /\ \E id \in Range(predictions) :
       /\ records[id].prediction = "NEUTRAL"
       /\ records[id].pnlPercentage = Some(50)
       /\ records[id].actualDirection = Some("NEUTRAL")
       /\ records[id].isCorrect = Some(TRUE)
  /\ Len(results) = 1

----------------------------------------------------------------------------
(* Claims about the retrain cycle                                          *)

EvaluatedCount == Len(getEvaluatedPredictions(predictions, records))

CycleEnds == Len(cycles) = 1 /\ cycles' = <<>>

HistoryOf(modelType, success) ==
  \E i \in DOMAIN updateHistory :
    /\ updateHistory[i].modelType = modelType
    /\ updateHistory[i].success = success

\* C2: at most one retrain cycle is in progress, and while the controller is
\* Updating no evaluatePrediction, processNewCandle or forceUpdate starts a
\* cycle or a training
C2_OneCycleAtATime ==
  /\ [](Len(cycles) <= 1 /\ (isUpdating <=> Len(cycles) = 1))
  /\ [][(isUpdating /\ lastOp'.name \in
            {"evaluatePrediction", "processNewCandle", "forceUpdate"})
          => UNCHANGED <<cycles, isUpdating, updateHistory>>]_vars

\* forceUpdate was just called while a cycle, already at its second model,
\* is awaiting a training
C2_Witness ==
  /\ lastOp.name = "forceUpdate"
  /\ isUpdating
  /\ Len(cycles) = 1
  /\ cycles[1].idx = 2
  /\ cycles[1].phase = "training"

\* C3: a cycle that entered Updating returns the controller to Idle, and the
\* flag goes back to Idle in exactly the steps that end a cycle
C3_CycleReleasesOnce ==
  /\ isUpdating ~> ~isUpdating
  /\ [][(isUpdating /\ ~isUpdating') <=> CycleEnds]_vars

\* a cycle in which the first model failed and the second succeeded has
\* ended and the controller is Idle
C3_Witness ==
  /\ lastOp.name = "ResumeCycle"
  /\ ~isUpdating
  /\ cycles = <<>>
  /\ HistoryOf("LSTM", FALSE)
  /\ HistoryOf("XGBoost", TRUE)

\* C4: a cycle calls ModelUpdater.updateModel once for each configured model
\* in turn, whatever the earlier calls did, and ends only after the last
C4_EveryModelAttempted ==
  /\ [](\A k \in DOMAIN cycles :
          /\ cycles[k].idx \in 1..Len(cycles[k].models)
          /\ cycles[k].attempted
               = SubSeq(cycles[k].models, 1, cycles[k].idx))
  /\ [][CycleEnds => cycles[1].attempted = cycles[1].models]_vars
  /\ [][\A k \in DOMAIN cycles \cap DOMAIN cycles' :
          cycles'[k].idx \in {cycles[k].idx, cycles[k].idx + 1}]_vars

\* the second model is being trained in a cycle whose first model failed
C4_Witness ==
  /\ Len(cycles) = 1
  /\ cycles[1].attempted = <<"LSTM", "XGBoost">>
  /\ cycles[1].phase = "training"
  /\ HistoryOf("LSTM", FALSE)

\* C8: with fewer than minSamplesForUpdate evaluated records in the store a
\* processNewCandle step neither enters Updating nor starts a training
C8_CandleNeedsSamples ==
  [][(lastOp'.name = "processNewCandle"
        /\ EvaluatedCount < config.minSamplesForUpdate)
       => UNCHANGED <<isUpdating, cycles, updateHistory,
                      lastUpdateTimestamp, predictions, records>>]_vars

\* processNewCandle was just called in 'candle' mode with auto-retrain on,
\* Idle, an accuracy below the threshold and one evaluated record short
C8_Witness ==
  /\ lastOp.name = "processNewCandle"
  /\ config.updateFrequency = "candle"
  /\ config.enableAutoRetrain
  /\ ~isUpdating
  /\ EvaluatedCount = config.minSamplesForUpdate - 1
  /\ EvaluatedCount > 0
  /\ AccuracyBelow(results, config.performanceThreshold)

\* C9: forceUpdate called while Idle enters Updating with a cycle over every
\* configured model, whatever the configuration and the evidence; called
\* while Updating it changes nothing
C9_ForceUpdateRunsCycle ==
  /\ [][lastOp'.name = "forceUpdate" =>
          IF isUpdating
          THEN UNCHANGED <<isUpdating, cycles, updateHistory,
                           lastUpdateTimestamp, predictions, records>>
          ELSE /\ isUpdating'
               /\ Len(cycles') = 1
               /\ cycles'[1].models = config.modelTypes
               /\ cycles'[1].attempted = <<config.modelTypes[1]>>
               /\ cycles'[1].recent
                    = getRecentPredictions(predictions, records,
                                           config.windowSize)]_vars
  /\ [][CycleEnds => cycles[1].idx = Len(cycles[1].models)]_vars

\* forceUpdate just started a cycle in 'manual' mode with auto-retrain off
\* and nothing evaluated
C9_Witness ==
  /\ lastOp.name = "forceUpdate"
  /\ isUpdating
  /\ config.updateFrequency = "manual"
  /\ ~config.enableAutoRetrain
  /\ EvaluatedCount = 0
  /\ Len(cycles) = 1
  /\ cycles[1].idx = 1

\* C12: processNewCandle runs the decision check exactly in 'candle' mode with
\* auto-retrain enabled, where a cycle starts if and only if the controller
\* is Idle, enough records are evaluated and the accuracy is below the
\* threshold; in every other configuration it changes nothing
C12_CandleRunsCheckOnlyWhenEnabled ==
  [][lastOp'.name = "processNewCandle" =>
       IF config.updateFrequency = "candle" /\ config.enableAutoRetrain
       THEN (cycles' # cycles)
              <=> (/\ ~isUpdating
                   /\ EvaluatedCount >= config.minSamplesForUpdate
                   /\ CorrectCount(results) * 100
                        < config.performanceThreshold * Len(results))
       ELSE UNCHANGED <<now, nextId, records, predictions, maxHistory,
                        results, resultsByModel, config, updaterConfig,
                        updateHistory, isUpdating, lastUpdateTimestamp,
                        cycles, thrown>>]_vars

\* processNewCandle was just called in 'candle' mode with auto-retrain off
\* while every gate of the decision check was open
C12_Witness ==
  /\ lastOp.name = "processNewCandle"
  /\ config.updateFrequency = "candle"
  /\ ~config.enableAutoRetrain
  /\ ~isUpdating
  /\ EvaluatedCount >= config.minSamplesForUpdate
  /\ Len(results) > 0
  /\ AccuracyBelow(results, config.performanceThreshold)

\* C13: an evaluatePrediction call made while a cycle is Updating evaluates
\* the record it names with that call's outcome and appends one outcome to
\* the tracker, alters or removes no other record and leaves the cycle as it
\* is; and the cycle still ends with the controller Idle
C13_EvaluationsDuringCycle ==
  /\ [][\A id \in Range(predictions) :
          (isUpdating /\ lastOp'.name = "evaluatePrediction"
             /\ lastOp'.id = id)
          => /\ IsEvaluated(records'[id])
             /\ records'[id].evaluatedAt = Some(now)
             /\ results' = Append(results, ScoredOutcome(records'[id], now))
             /\ predictions' = predictions
             /\ \A o \in Range(predictions) \ {id} : records'[o] = records[o]
             /\ UNCHANGED <<cycles, isUpdating, updateHistory, thrown>>]_vars
  /\ (isUpdating /\ lastOp.name = "evaluatePrediction") ~> ~isUpdating

\* two records that were both pending when the cycle took its snapshot have
\* been evaluated, with different outcomes, while the cycle is in progress
C13_Witness ==
  /\ lastOp.name = "evaluatePrediction"
  /\ isUpdating
  /\ Len(cycles) = 1
  /\ cycles[1].idx = 1
  /\ cycles[1].phase = "resolved"
  /\ updaterConfig.minSamplesForUpdate = 1
  /\ updateHistory = <<>>
  /\ Len(results) = 2
  /\ \E a, b \in Range(cycles[1].recent) \cap Range(predictions) :
       /\ a # b
       /\ records[a].actualDirection = Some("UP")
       /\ records[b].actualDirection = Some("DOWN")

\* C14: no forceUpdate and no gate-triggered cycle rejects: whichever of the
\* configured models' trainings raise, the call completes normally
C14_TrainingFailureNotPropagated == ~thrown

\* a cycle in which the training of every configured model raised has ended
\* normally
C14_Witness ==
  /\ lastOp.name = "ResumeCycle"
  /\ cycles = <<>>
  /\ ~isUpdating
  /\ ~thrown
  /\ Len(updateHistory) = Len(config.modelTypes)
  /\ \A i \in DOMAIN updateHistory :
       /\ ~updateHistory[i].success
       /\ updateHistory[i].modelType = config.modelTypes[i]

EvaluatedIn(ids, recs) == Len(SelectSeq(ids, LAMBDA id : IsEvaluated(recs[id])))

NewUpdateCall(k) ==
  k \notin DOMAIN cycles \/ cycles'[k].idx # cycles[k].idx

\* C15: an updateModel call handed at least minSamplesForUpdate evaluated
\* predictions calls the training capability, and when that call settles
\* exactly one entry for the call's model is appended to the update history:
\* success = TRUE if the training returned, success = FALSE if it raised,
\* and then the updateModel call rejects; nothing else appends an entry
C15_OneEntryPerUpdate ==
  /\ [][\A k \in DOMAIN cycles' :
          NewUpdateCall(k)
          => /\ cycles'[k].phase = "training"
                  <=> EvaluatedIn(cycles'[k].recent, records')
                        >= updaterConfig.minSamplesForUpdate
             /\ updateHistory' = updateHistory]_vars
  /\ [][\A k \in DOMAIN cycles \cap DOMAIN cycles' :
          (cycles[k].phase = "training" /\ cycles'[k].phase # "training")
          => /\ Len(updateHistory') = Len(updateHistory) + 1
             /\ SubSeq(updateHistory', 1, Len(updateHistory)) = updateHistory
             /\ LET entry == updateHistory'[Len(updateHistory')]
                IN /\ entry.modelType = cycles[k].models[cycles[k].idx]
                   /\ entry.success <=> lastOp'.name = "TrainReturns"
                   /\ ~entry.success <=> lastOp'.name = "TrainRaises"
                   /\ ~entry.success <=> cycles'[k].phase = "rejected"]_vars
  /\ [][updateHistory' # updateHistory
          => \E k \in DOMAIN cycles \cap DOMAIN cycles' :
               cycles[k].phase = "training" /\ cycles'[k].phase # "training"]_vars

\* the training of the second model just raised: the history ends with its
\* failed entry after the first model's successful one, and the call rejects
C15_Witness ==
  /\ lastOp.name = "TrainRaises"
  /\ Len(cycles) = 1
  /\ cycles[1].phase = "rejected"
  /\ cycles[1].idx = 2
  /\ Len(updateHistory) = 2
  /\ updateHistory[1].success
  /\ ~updateHistory[2].success
  /\ updateHistory[2].modelType = "XGBoost"

\* C16: the update history never holds more than 100 entries, and every
\* change of it appends one attempt and keeps the most recent 100
C16_HistoryCappedAtMostRecent ==
  /\ [](Len(updateHistory) <= MaxUpdateHistory)
  /\ [][updateHistory' # updateHistory
          => updateHistory'
               = Last(Append(updateHistory,
                             updateHistory'[Len(updateHistory')]),
                      MaxUpdateHistory)]_vars

SameFraction(p, q) == p[1] * q[2] = q[1] * p[2]

\* C17: while no record has been evicted from the store and no outcome
\* trimmed from the tracker, the store's stats and the tracker's overall
\* metrics report the same number of evaluated predictions, the same number
\* of correct ones and the same accuracy
C17_StatsAgree ==
  (Len(predictions) = nextId - 1 /\ Len(results) < MaxHistorySize)
  => LET stats == getStats(predictions, records)
         overall == getOverallPerformance(results)
     IN /\ stats.evaluated = overall.totalPredictions
        /\ stats.correct = overall.correctPredictions
        /\ SameFraction(stats.accuracy, overall.accuracy)

\* C18: after updateConfig(partial) every field the partial names has the
\* partial's value and every other field its prior value, and in every
\* reachable state the ModelUpdater's configuration equals the controller's
C18_UpdateConfigMerges ==
  /\ [](updaterConfig = config)
  /\ [][lastOp'.name = "updateConfig"
          => /\ DOMAIN config' = ConfigFields
             /\ \A f \in ConfigFields :
                  config'[f] = IF f \in DOMAIN lastOp'.partial
                               THEN lastOp'.partial[f] ELSE config[f]]_vars

\* updateConfig was just called with a partial of two fields during a
\* retrain cycle, after an earlier call whose maxPredictionHistory is retained
C18_Witness ==
  /\ lastOp.name = "updateConfig"
  /\ DOMAIN lastOp.partial = {"minSamplesForUpdate", "enableAutoRetrain"}
  /\ config.minSamplesForUpdate = 2
  /\ ~config.enableAutoRetrain
  /\ config.maxPredictionHistory = 1
  /\ updaterConfig = config
  /\ isUpdating

CandleStartsNextCycle ==
  /\ lastOp'.name = "processNewCandle"
  /\ lastUpdateTimestamp > 0
  /\ ~isUpdating
  /\ isUpdating'

\* the outcomes appended to the tracker no earlier than time t
EvaluatedSince(t) == SelectSeq(results, LAMBDA r : r.timestamp >= t)

\* C20: after a gate-triggered cycle has completed the decision check starts
\* another cycle only when at least minSamplesForUpdate predictions have
\* been evaluated since
C20_RetrainNeedsFreshSamples ==
  [][CandleStartsNextCycle
       => Len(EvaluatedSince(lastUpdateTimestamp))
            >= config.minSamplesForUpdate]_vars

\* C20 as amended: after a gate-triggered cycle has completed the decision
\* check starts another cycle only when the store holds at least
\* minSamplesForUpdate evaluated predictions, whether or not an earlier cycle
\* used them
C20_RetrainNeedsEvaluatedInStore ==
  [][CandleStartsNextCycle
       => EvaluatedCount >= config.minSamplesForUpdate]_vars

\* processNewCandle has just started a second cycle although nothing was
\* evaluated since the first one completed
C20_Witness ==
  /\ lastOp.name = "processNewCandle"
  /\ isUpdating
  /\ lastUpdateTimestamp > 0
  /\ EvaluatedSince(lastUpdateTimestamp) = <<>>
  /\ Len(updateHistory) > 0
  /\ EvaluatedCount = config.minSamplesForUpdate

----------------------------------------------------------------------------
(* Claims about the decision check, checked under DecisionSpec             *)

\* the gates of the decision check are open
GatesPass ==
  /\ ~isUpdating
  /\ EvaluatedCount >= config.minSamplesForUpdate
  /\ config.updateFrequency = "window"
       => now - lastUpdateTimestamp >= config.updateInterval
  /\ AccuracyBelow(results, config.performanceThreshold)

\* processNewCandle runs the decision check with a dataset
CandleChecks ==
  /\ lastOp'.name = "processNewCandle"
  /\ config.updateFrequency = "candle"
  /\ config.enableAutoRetrain

\* recent holds the size most recent records of the store
IsRecentWindow(recent, preds, recs, size) ==
  /\ Len(recent) = Min(size, Len(preds))
  /\ Range(recent) \subseteq Range(preds)
  /\ Cardinality(Range(recent)) = Len(recent)
  /\ \A a \in Range(recent), b \in Range(preds) \ Range(recent) :
       recs[a].timestamp >= recs[b].timestamp

\* a decision check that passes its gates starts a cycle over every
\* configured model and the recent window of the store
PassedCheckStartsCycle ==
  (CandleChecks /\ GatesPass)
  => /\ Len(cycles') = 1
     /\ cycles'[1].models = config.modelTypes
     /\ IsRecentWindow(cycles'[1].recent, predictions, records,
                       config.windowSize)

\* C21: whenever the decision check passes all of its gates with a dataset
\* available, the training capability is invoked for every configured model
\* id, using the recent window of the store
C21_PassedCheckTrainsEveryModel ==
  /\ [][PassedCheckStartsCycle]_vars
  /\ [][\A k \in DOMAIN cycles' :
          NewUpdateCall(k) => cycles'[k].phase = "training"]_vars
  /\ [][CycleEnds => cycles[1].attempted = cycles[1].models]_vars

\* C21 as amended: whenever the decision check passes all of its gates with
\* a dataset available, updateModel is called for every configured model id
\* with the recent window of the store, and a call invokes the training
\* capability exactly when it finds at least minSamplesForUpdate evaluated
\* records in that window
C21_PassedCheckUpdatesEveryModel ==
  /\ [][PassedCheckStartsCycle]_vars
  /\ [][\A k \in DOMAIN cycles' :
          NewUpdateCall(k)
          => (cycles'[k].phase = "training"
                <=> EvaluatedIn(cycles'[k].recent, records')
                      >= updaterConfig.minSamplesForUpdate)]_vars
  /\ [][CycleEnds => cycles[1].attempted = cycles[1].models]_vars

\* the check has passed on a store with enough evaluated records, and the
\* first updateModel call returned without training: the window is the most
\* recent record, which is pending
C21_Witness ==
  /\ lastOp.name = "processNewCandle"
  /\ Len(cycles) = 1
  /\ cycles[1].idx = 1
  /\ cycles[1].phase = "resolved"
  /\ EvaluatedCount >= config.minSamplesForUpdate
  /\ EvaluatedIn(cycles[1].recent, records) < config.minSamplesForUpdate

\* the updateModel call of cycle k for its next model
NextModelCall(k) ==
  /\ k \in DOMAIN cycles \cap DOMAIN cycles'
  /\ cycles'[k].idx = cycles[k].idx + 1

\* C22: the sample set of a retrain cycle is fixed at decision time:
\* evaluatePrediction and logPrediction calls that interleave with a cycle in
\* progress do not change the evaluated samples of its window, so every
\* model of one cycle is handed the same number of evaluated samples and
\* meets the same train-or-skip decision
C22_SampleSetFixedAtDecision ==
  /\ [][\A k \in DOMAIN cycles \cap DOMAIN cycles' :
          /\ cycles'[k].recent = cycles[k].recent
          /\ EvaluatedIn(cycles'[k].recent, records')
               = EvaluatedIn(cycles[k].recent, records)]_vars
  /\ [][\A k \in DOMAIN cycles' :
          NextModelCall(k)
          => /\ cycles'[k].phase = "training" <=> cycles[k].samples > 0
             /\ cycles'[k].phase = "training"
                  => cycles'[k].samples = cycles[k].samples]_vars

\* the tracker's overall accuracy is strictly below the threshold
StrictlyBelowThreshold ==
  getOverallPerformance(results).accuracy[1] * 100
    < config.performanceThreshold * getOverallPerformance(results).accuracy[2]

\* C23: the decision check never starts a retrain cycle when the tracker's
\* overall accuracy is greater than or equal to performanceThreshold; it
\* starts one only when the accuracy is strictly below the threshold
C23_AccuracyGateStrict ==
  [][(~isUpdating /\ isUpdating')
       => lastOp'.name = "processNewCandle" /\ StrictlyBelowThreshold]_vars

\* half of the two outcomes are correct, which is the threshold: the check
\* run by processNewCandle had enough samples and started nothing
C23_Witness ==
  /\ lastOp.name = "processNewCandle"
  /\ ~isUpdating
  /\ Len(results) = 2
  /\ CorrectCount(results) * 100 = config.performanceThreshold * Len(results)
  /\ EvaluatedCount >= config.minSamplesForUpdate
  /\ lastUpdateTimestamp = 0
  /\ updateHistory = <<>>

----------------------------------------------------------------------------
(* Claims about the end of a cycle, checked under EvictionSpec, and about   *)
(* the store's capacity, checked under CapacitySpec                        *)

\* C25: within a retrain cycle the bookkeeping happens only after all
\* per-model updates of that cycle have finished, and in this order:
\* lastUpdateTimestamp is set to the current time, the store is evicted down
\* to the maxPredictionHistory most recent records, and then the controller
\* becomes Idle; so the step that returns the controller to Idle is the step
\* after the last model's update, and it leaves the time set and the store
\* evicted
C25_BookkeepingAfterAllModels ==
  /\ [][CycleEnds
          => /\ cycles[1].attempted = cycles[1].models
             /\ cycles[1].phase \in {"resolved", "rejected"}
             /\ lastUpdateTimestamp' = now
             /\ IsRecentWindow(predictions', predictions, records,
                               config.maxPredictionHistory)
             /\ ~isUpdating']_vars
  /\ [][lastUpdateTimestamp' # lastUpdateTimestamp => CycleEnds]_vars
  /\ [][(isUpdating /\ ~isUpdating') => CycleEnds]_vars
  /\ [][(Range(predictions) \ Range(predictions') # {})
          => CycleEnds \/ lastOp'.name = "logPrediction"]_vars

\* a cycle that began after the second prediction was logged has ended: the
\* time is set, the older prediction is evicted and the controller is Idle
C25_Witness ==
  /\ lastOp.name = "ResumeCycle"
  /\ ~isUpdating
  /\ lastUpdateTimestamp = now
  /\ now = 2
  /\ config.maxPredictionHistory = 1
  /\ nextId = 3
  /\ predictions = <<2>>
  /\ records[2].timestamp = 2
  /\ Len(updateHistory) > 0

\* C30: the capacity that the store applies on insertion is fixed when the
\* controller is constructed: an updateConfig that changes
\* maxPredictionHistory does not change the bound applied by later
\* logPrediction calls and evicts nothing by itself; only the eviction at
\* the end of a retrain cycle uses the updated value
C30_InsertionCapacityFixed ==
  /\ [][lastOp'.name = "logPrediction"
          => \A c \in CapacityConfigs :
               Len(predictions')
                 = Min(Len(predictions) + 1, c.maxPredictionHistory)]_vars
  /\ [][lastOp'.name = "updateConfig"
          => predictions' = predictions /\ records' = records]_vars
  /\ [][CycleEnds
          => Len(predictions')
               = Min(Len(predictions), config.maxPredictionHistory)]_vars

\* after updateConfig lowered maxPredictionHistory to 1 a third prediction
\* was logged, and the store holds two records: the capacity it was built with
C30_Witness ==
  /\ lastOp.name = "logPrediction"
  /\ config.maxPredictionHistory = 1
  /\ nextId = 4
  /\ Len(predictions) = 2
  /\ lastUpdateTimestamp = 0

----------------------------------------------------------------------------
(* Claims about what starts a training, checked under ModeSpec             *)

----------------------------------------------------------------------------
(* A claim about a cycle whose window is short of evaluated records,       *)
(* checked under DecisionSpec                                              *)

\* the updateModel call of cycle k for its current model found too few
\* evaluated records and returned without training
Skipped(c) == c.phase = "resolved" /\ c.samples = 0

\* C27: a retrain cycle whose recent window (the windowSize most recent
\* records by timestamp, pending or evaluated) contains fewer than
\* minSamplesForUpdate evaluated records invokes no training and appends no
\* update history entry for any model, yet still sets lastUpdateTimestamp to
\* the current time and evicts the store; in particular no model is ever
\* trained while windowSize is below minSamplesForUpdate
C27_ShortWindowTrainsNothing ==
  /\ [][\A k \in DOMAIN cycles' \ DOMAIN cycles :
          EvaluatedIn(cycles'[k].recent, records')
            < config.minSamplesForUpdate
          => Skipped(cycles'[k]) /\ updateHistory' = updateHistory]_vars
  /\ [][\A k \in DOMAIN cycles' :
          (NextModelCall(k) /\ Skipped(cycles[k]))
          => Skipped(cycles'[k]) /\ updateHistory' = updateHistory]_vars
  /\ [][CycleEnds
          => /\ lastUpdateTimestamp' = now
             /\ IsRecentWindow(predictions', predictions, records,
                               config.maxPredictionHistory)]_vars
  /\ [](\A k \in DOMAIN cycles :
          cycles[k].phase = "training"
          => config.windowSize >= config.minSamplesForUpdate)

----------------------------------------------------------------------------
(* A claim about reset, checked under ResetSpec                            *)

\* C28: reset() empties the store and the tracker and sets
\* lastUpdateTimestamp to 0 but leaves the Idle/Updating flag, the
\* configuration and the ModelUpdater's update history unchanged; a reset
\* issued while a cycle is Updating does not stop that cycle, whose
\* completion then sets lastUpdateTimestamp to a nonzero time and returns
\* the controller to Idle
C28_ResetLeavesCycleRunning ==
  /\ [][lastOp'.name = "reset"
          => /\ predictions' = <<>>
             /\ results' = <<>>
             /\ DOMAIN resultsByModel' = {}
             /\ lastUpdateTimestamp' = 0
             /\ isUpdating' = isUpdating
             /\ config' = config
             /\ updaterConfig' = updaterConfig
             /\ updateHistory' = updateHistory
             /\ cycles' = cycles]_vars
  /\ [][CycleEnds
          => /\ lastUpdateTimestamp' = now
             /\ lastUpdateTimestamp' # 0
             /\ ~isUpdating']_vars
  /\ (isUpdating /\ lastOp.name = "reset") ~> (~isUpdating)

\* a cycle that was training when reset emptied the store and the tracker
\* has completed: the history holds its entries, the time is set again and
\* the controller is Idle
C28_Witness ==
  /\ lastOp.name = "ResumeCycle"
  /\ ~isUpdating
  /\ lastUpdateTimestamp = now
  /\ predictions = <<>>
  /\ results = <<>>
  /\ Len(updateHistory) = 2

----------------------------------------------------------------------------
(* A claim about the tracker's per-model sequences, checked under          *)
(* EnsembleSpec                                                            *)

\* C29: through the controller's operations the tracker's per-model
\* sequences are never written: in every reachable state the map of
\* per-model results is empty, while the global sequence grows by one
\* outcome per evaluation, whatever sub-model predictions the logged
\* ensembles carried
C29_PerModelResultsNeverWritten ==
  /\ [](DOMAIN resultsByModel = {})
  /\ [][(lastOp'.name = "evaluatePrediction"
           /\ lastOp'.id \in Range(predictions))
          => /\ Len(results') = Len(results) + 1
             /\ SubSeq(results', 1, Len(results)) = results]_vars
  /\ [][results' # results => lastOp'.name = "evaluatePrediction"]_vars

\* a prediction whose ensemble carried two sub-model predictions has been
\* evaluated, as the second evaluation: two global outcomes, none per model
C29_Witness ==
  /\ lastOp.name = "evaluatePrediction"
  /\ lastOp.id \in Range(predictions)
  /\ IsEvaluated(records[lastOp.id])
  /\ Len(records[lastOp.id].modelPredictions) = 2
  /\ Len(results) = 2
  /\ DOMAIN resultsByModel = {}

====
